---- MODULE Spec2Model ----
(***************************************************************************)
(* LineParser.py: detection of the lines that hold three or more of the    *)
(* points read from a csv file.  Coordinates are fractions.Fraction values *)
(* (pairs <<numerator, denominator>> in lowest terms, denominator > 0);    *)
(* a LineParser object holds the point set and the per-line accumulation   *)
(* structures; get_3_point_lines parses the file, scans every pair of      *)
(* points and builds the labelled result records.                          *)
(***************************************************************************)
EXTENDS Integers, Sequences, FiniteSets, TLC

\* ---------------------------------------------------------------- bounds
\* the input points are the first PoolSize points of the half-unit lattice,
\* counted along its diagonals
PoolSize == 6
\* the longest input file, in lines
MaxRecords == 5
\* calls of get_3_point_lines on one LineParser (SpecReuse only)
MaxCalls == 2
\* the largest point set a repeated call may build (SpecReuse only)
MaxReusePoints == 3

\* ------------------------------------------------- fractions.Fraction
Abs(n) == IF n < 0 THEN -n ELSE n

RECURSIVE Gcd(_, _)
Gcd(a, b) == IF b = 0 THEN a ELSE Gcd(b, a % b)

\* Fraction(n, d), d # 0: lowest terms, the sign carried by the numerator
Fraction(n, d) ==
    LET g == Gcd(Abs(n), Abs(d))
        s == IF d < 0 THEN -1 ELSE 1
    IN  <<(s * n) \div g, (s * d) \div g>>

\* Fraction(text) of a decimal text "whole.tenths"
FractionFromText(t) == Fraction(10 * t.whole + t.tenths, 10)

FAdd(a, b) == Fraction(a[1] * b[2] + b[1] * a[2], a[2] * b[2])
FSub(a, b) == Fraction(a[1] * b[2] - b[1] * a[2], a[2] * b[2])
FMul(a, b) == Fraction(a[1] * b[1], a[2] * b[2])
\* a / b for b # 0 (b = 0 raises ZeroDivisionError, see Line)
FDiv(a, b) == Fraction(a[1] * b[2], a[2] * b[1])
FIsZero(a) == a[1] = 0

\* ------------------------------------------------------- Point and Line
Point(x1, y1) == [x |-> x1, y |-> y1]

\* the exception Line.__init__ raises when the division has a zero divisor
ZeroDivisionError == [exception |-> "ZeroDivisionError"]

\* Line with the intercept taken at the other point's x
Line_InterceptAtPt2(pt1, pt2) ==
    IF FIsZero(FSub(pt1.x, pt2.x))
    THEN ZeroDivisionError
    ELSE LET m == FDiv(FSub(pt1.y, pt2.y), FSub(pt1.x, pt2.x))
         IN  [m |-> m, b |-> FSub(pt1.y, FMul(m, pt2.x))]

\* Line whose identity is its slope alone
Line_SlopeOnly(pt1, pt2) ==
    IF FIsZero(FSub(pt1.x, pt2.x))
    THEN ZeroDivisionError
    ELSE LET m == FDiv(FSub(pt1.y, pt2.y), FSub(pt1.x, pt2.x))
         IN  [m |-> m, b |-> <<0, 1>>]

\* Line(pt1, pt2): slope and intercept, or the exception of the division
Line(pt1, pt2) ==
    IF FIsZero(FSub(pt1.x, pt2.x))
    THEN ZeroDivisionError
    ELSE LET m == FDiv(FSub(pt1.y, pt2.y), FSub(pt1.x, pt2.x))
         IN  [m |-> m, b |-> FSub(pt1.y, FMul(m, pt1.x))]

\* ------------------------------------------------------ the input files
\* the decimal text of c halves: "0.0", "0.5", "1.0", "1.5", ...
Text(c) == [whole |-> c \div 2, tenths |-> 5 * (c % 2)]

\* the k-th lattice point along the diagonals: (0,0), (1,0), (0,1), (2,0), ...
LatticePoint(k) ==
    CHOOSE c \in (0 .. k) \X (0 .. k) :
        ((c[1] + c[2]) * (c[1] + c[2] + 1)) \div 2 + c[2] = k

\* a well-formed line "x,y", split at the comma into its two fields
PoolLine(k) == <<Text(LatticePoint(k)[1]), Text(LatticePoint(k)[2])>>
\* a line with no comma: one field
MalformedLine == <<Text(0)>>

FileLines == {PoolLine(k) : k \in 0 .. PoolSize - 1} \cup {MalformedLine}

\* a file that does not exist, or a file of at most max lines
FilesUpTo(max) ==
    {[exists |-> FALSE, lines |-> <<>>]} \cup
    {[exists |-> TRUE, lines |-> s] :
        s \in UNION {[1 .. n -> FileLines] : n \in 0 .. max}}

Files == FilesUpTo(MaxRecords)

WellFormed(line) == Len(line) = 2
PointOfLine(line) == Point(FractionFromText(line[1]), FractionFromText(line[2]))

\* the points of every well-formed line of the file
SuppliedPoints(f) ==
    {PointOfLine(f.lines[k]) : k \in {j \in 1 .. Len(f.lines) : WellFormed(f.lines[j])}}

\* the index of the first line whose unpacking raises, Len + 1 if none
FirstMalformed(lines) ==
    LET bad == {j \in 1 .. Len(lines) : ~WellFormed(lines[j])}
    IN  IF bad = {} THEN Len(lines) + 1
        ELSE CHOOSE j \in bad : \A k \in bad : j <= k

\* the exception the try block of parse_points_from_csv ends with
ParseException(f) ==
    IF ~f.exists THEN "IOError"
    ELSE IF FirstMalformed(f.lines) <= Len(f.lines) THEN "ValueError"
    ELSE "none"

\* the points added to self.points before the try block ends
ParsedPoints(f) ==
    IF ~f.exists THEN {}
    ELSE {PointOfLine(f.lines[k]) : k \in 1 .. FirstMalformed(f.lines) - 1}

\* ---------------------------------------------------------------- state
VARIABLES
    pc,                 \* where the call of get_3_point_lines stands
    calls,              \* calls of get_3_point_lines made on this LineParser
    supplied,           \* the points of the file given to the current call
    caught,             \* the exception the except clause of the parse caught
    points,             \* self.points
    lines_to_points,    \* self.lines_to_points
    vertical_x_to_y,    \* self.vertical_x_to_y
    three_point_lines,  \* self.three_point_lines
    point_list,         \* get_lines_from_points: list(self.points)
    start_index,        \* get_lines_from_points: start_index
    i,                  \* get_lines_from_points: i
    results,            \* get_3_point_lines: results
    index,              \* get_3_point_lines: index
    seen_lines,         \* lines the first report loop has iterated over
    seen_x              \* keys the second report loop has iterated over

vars == <<pc, calls, supplied, caught, points, lines_to_points, vertical_x_to_y,
          three_point_lines, point_list, start_index, i, results, index,
          seen_lines, seen_x>>

EmptyMap == [k \in {} |-> {}]

\* LineParser()
Init ==
    /\ pc = "idle"
    /\ calls = 0
    /\ supplied = {}
    /\ caught = "none"
    /\ points = {}
    /\ lines_to_points = EmptyMap
    /\ vertical_x_to_y = EmptyMap
    /\ three_point_lines = {}
    /\ point_list = <<>>
    /\ start_index = 0
    /\ i = 0
    /\ results = <<>>
    /\ index = 0
    /\ seen_lines = {}
    /\ seen_x = {}

\* ------------------------------------------- parse_points_from_csv
\* the body of a call up to the return of parse_points_from_csv: the lines
\* before the first malformed one are added to self.points, and whatever the
\* try block raises is caught and printed
ParseCall(f) ==
    /\ supplied' = SuppliedPoints(f)
    /\ caught' = ParseException(f)
    /\ points' = points \cup ParsedPoints(f)
    /\ calls' = calls + 1
    /\ results' = <<>>
    /\ pc' = "parsed"
    /\ UNCHANGED <<lines_to_points, vertical_x_to_y, three_point_lines,
                   point_list, start_index, i, index, seen_lines, seen_x>>

\* parser = LineParser(); parser.get_3_point_lines(file_path)
GetThreePointLines ==
    /\ pc = "idle"
    /\ calls = 0
    /\ \E f \in Files : ParseCall(f)

\* a further get_3_point_lines(file_path) on the same LineParser
CallAgain ==
    /\ pc = "done"
    /\ calls < MaxCalls
    /\ Cardinality(points) <= MaxReusePoints
    /\ \E f \in FilesUpTo(MaxReusePoints) :
        /\ Cardinality(points \cup ParsedPoints(f)) <= MaxReusePoints
        /\ ParseCall(f)

\* ------------------------------------------------ get_lines_from_points
RECURSIVE Perms(_)
\* the orders list(self.points) may have
Perms(S) ==
    IF S = {} THEN {<<>>}
    ELSE UNION {{<<x>> \o p : p \in Perms(S \ {x})} : x \in S}

\* the guard written on the y-coordinates
NotVertical_OnY(pt1, pt2) == ~FIsZero(FSub(pt1.y, pt2.y))

\* if pt1.x - pt2.x != 0
NotVertical(pt1, pt2) == ~FIsZero(FSub(pt1.x, pt2.x))

\* self.lines_to_points after the pair (pt1, pt2) of the line
LinesToPointsAfter(ltp, line, pt1, pt2) ==
    IF line \in DOMAIN ltp
    THEN [ltp EXCEPT ![line] = @ \cup {pt1, pt2}]
    ELSE [l \in DOMAIN ltp \cup {line} |->
            IF l = line THEN {pt1, pt2} ELSE ltp[l]]

\* the size test made before the two adds
ThreePointLinesAfter_BeforeAdd(tpl, ltp, line, pt1, pt2) ==
    IF /\ line \in DOMAIN ltp
       /\ Cardinality(ltp[line]) >= 3
       /\ line \notin tpl
    THEN tpl \cup {line}
    ELSE tpl

\* the size test written > 3
ThreePointLinesAfter_Strict(tpl, ltp, line, pt1, pt2) ==
    IF /\ line \in DOMAIN ltp
       /\ Cardinality(ltp[line] \cup {pt1, pt2}) > 3
       /\ line \notin tpl
    THEN tpl \cup {line}
    ELSE tpl

\* self.three_point_lines after the pair: the line is added only in the branch
\* that found its entry, when the entry now holds three points
ThreePointLinesAfter(tpl, ltp, line, pt1, pt2) ==
    IF /\ line \in DOMAIN ltp
       /\ Cardinality(ltp[line] \cup {pt1, pt2}) >= 3
       /\ line \notin tpl
    THEN tpl \cup {line}
    ELSE tpl

\* pt1.x stored in place of pt1.y
VerticalAfter_StoresX(vxy, pt1, pt2) ==
    IF pt2.x \in DOMAIN vxy
    THEN [vxy EXCEPT ![pt2.x] = @ \cup {pt1.x, pt2.y}]
    ELSE [x \in DOMAIN vxy \cup {pt2.x} |->
            IF x = pt2.x THEN {pt1.x, pt2.y} ELSE vxy[x]]

\* self.vertical_x_to_y after the pair (pt1, pt2) of equal x
VerticalAfter(vxy, pt1, pt2) ==
    IF pt2.x \in DOMAIN vxy
    THEN [vxy EXCEPT ![pt2.x] = @ \cup {pt1.y, pt2.y}]
    ELSE [x \in DOMAIN vxy \cup {pt2.x} |->
            IF x = pt2.x THEN {pt1.y, pt2.y} ELSE vxy[x]]

\* the body of the inner loop on the accumulation structures acc; raised
\* records that Line(pt1, pt2) raised, which ends the scan
ProcessPair(acc, pt1, pt2) ==
    IF acc.raised THEN acc
    ELSE IF NotVertical(pt1, pt2)
    THEN LET line == Line(pt1, pt2)
         IN  IF line = ZeroDivisionError
             THEN [acc EXCEPT !.raised = TRUE]
             ELSE [ltp |-> LinesToPointsAfter(acc.ltp, line, pt1, pt2),
                   vxy |-> acc.vxy,
                   tpl |-> ThreePointLinesAfter(acc.tpl, acc.ltp, line, pt1, pt2),
                   raised |-> FALSE]
    ELSE [acc EXCEPT !.vxy = VerticalAfter(acc.vxy, pt1, pt2)]

RECURSIVE ScanFrom(_, _, _, _)
\* the two loops from the pair (point_list[s - 1], point_list[j]) on
ScanFrom(acc, list, s, j) ==
    LET a == ProcessPair(acc, list[s], list[j + 1])
    IN  IF a.raised THEN a
        ELSE IF j + 1 < Len(list) THEN ScanFrom(a, list, s, j + 1)
        ELSE IF s + 1 < Len(list) THEN ScanFrom(a, list, s + 1, s + 1)
        ELSE a

\* what get_lines_from_points leaves when list(self.points) is list
ScanOf(acc, list) ==
    IF Len(list) < 2 THEN acc ELSE ScanFrom(acc, list, 1, 1)

\* start_index = 1; point_list = list(self.points); the loops run no pair
\* when the list has fewer than two points
GetLinesFromPoints ==
    /\ pc = "parsed"
    /\ \E order \in Perms(points) :
        IF Len(order) >= 2
        THEN /\ point_list' = order
             /\ start_index' = 1
             /\ i' = 1
             /\ pc' = "scan"
        ELSE /\ point_list' = <<>>
             /\ start_index' = 0
             /\ i' = 0
             /\ pc' = "scanned"
    /\ UNCHANGED <<calls, supplied, caught, points, lines_to_points,
                   vertical_x_to_y, three_point_lines, results, index,
                   seen_lines, seen_x>>

\* one pass of the inner loop: pt1 = point_list[start_index - 1] (the outer
\* loop's element), pt2 = point_list[i]; then the loops advance, and return
\* after the last pair
ScanPair ==
    /\ pc = "scan"
    /\ LET pt1 == point_list[start_index]
           pt2 == point_list[i + 1]
           n == Len(point_list)
           acc == ProcessPair([ltp |-> lines_to_points, vxy |-> vertical_x_to_y,
                               tpl |-> three_point_lines, raised |-> FALSE],
                              pt1, pt2)
       IN  /\ lines_to_points' = acc.ltp
           /\ vertical_x_to_y' = acc.vxy
           /\ three_point_lines' = acc.tpl
           /\ IF acc.raised
              THEN /\ pc' = "raised"
                   /\ UNCHANGED <<point_list, start_index, i>>
              ELSE IF i + 1 < n
              THEN /\ i' = i + 1
                   /\ UNCHANGED <<pc, point_list, start_index>>
              ELSE IF start_index + 1 < n
              THEN /\ start_index' = start_index + 1
                   /\ i' = start_index + 1
                   /\ UNCHANGED <<pc, point_list>>
              ELSE /\ pc' = "scanned"
                   /\ point_list' = <<>>
                   /\ start_index' = 0
                   /\ i' = 0
    /\ UNCHANGED <<calls, supplied, caught, points, results, index,
                   seen_lines, seen_x>>

\* ------------------------------------------- get_3_point_lines, the report
\* results = []; index = 1
BeginReport ==
    /\ pc = "scanned"
    /\ results' = <<>>
    /\ index' = 1
    /\ seen_lines' = {}
    /\ seen_x' = {}
    /\ pc' = "report"
    /\ UNCHANGED <<calls, supplied, caught, points, lines_to_points,
                   vertical_x_to_y, three_point_lines, point_list,
                   start_index, i>>

\* the points a result record lists after its label
SlopedGroup(line) == lines_to_points[line]
VerticalGroup(x) == {Point(x, y) : y \in vertical_x_to_y[x]}

\* one pass of "for line in self.three_point_lines", in the set's order
ReportSloped ==
    /\ pc = "report"
    /\ \E line \in three_point_lines \ seen_lines :
        /\ results' = Append(results, [label |-> index, group |-> SlopedGroup(line)])
        /\ index' = index + 1
        /\ seen_lines' = seen_lines \cup {line}
    /\ UNCHANGED <<pc, calls, supplied, caught, points, lines_to_points,
                   vertical_x_to_y, three_point_lines, point_list,
                   start_index, i, seen_x>>

\* the size test written >= 2
VerticalQualifies_Two(x) == Cardinality(vertical_x_to_y[x]) >= 2

\* whether the second loop reports the key x
VerticalQualifies(x) == Cardinality(vertical_x_to_y[x]) >= 3

\* index += 1 outside the if
IndexAfterVertical_Always(x) == index + 1

\* index after the pass of the second loop on the key x
IndexAfterVertical(x) == IF VerticalQualifies(x) THEN index + 1 ELSE index

\* one pass of "for x in self.vertical_x_to_y", in the dictionary's order
ReportVertical ==
    /\ pc = "report"
    /\ three_point_lines \subseteq seen_lines
    /\ \E x \in (DOMAIN vertical_x_to_y) \ seen_x :
        /\ results' = IF VerticalQualifies(x)
                      THEN Append(results, [label |-> index, group |-> VerticalGroup(x)])
                      ELSE results
        /\ index' = IndexAfterVertical(x)
        /\ seen_x' = seen_x \cup {x}
    /\ UNCHANGED <<pc, calls, supplied, caught, points, lines_to_points,
                   vertical_x_to_y, three_point_lines, point_list,
                   start_index, i, seen_lines>>

\* return results
Return ==
    /\ pc = "report"
    /\ three_point_lines \subseteq seen_lines
    /\ DOMAIN vertical_x_to_y \subseteq seen_x
    /\ pc' = "done"
    /\ index' = 0
    /\ seen_lines' = {}
    /\ seen_x' = {}
    /\ UNCHANGED <<calls, supplied, caught, points, lines_to_points,
                   vertical_x_to_y, three_point_lines, point_list,
                   start_index, i, results>>

\* ------------------------------------------------------- specifications
\* the program: one LineParser, one call of get_3_point_lines
Next ==
    \/ GetThreePointLines
    \/ GetLinesFromPoints
    \/ ScanPair
    \/ BeginReport
    \/ ReportSloped
    \/ ReportVertical
    \/ Return

Spec == Init /\ [][Next]_vars

\* the same LineParser called again after a call has returned
NextReuse ==
    \/ Next
    \/ CallAgain

SpecReuse == Init /\ [][NextReuse]_vars

\* ------------------------------------------------------------- geometry
\* p, q, r on one line, by the cross product (no slope is formed)
Collinear(p, q, r) ==
    FMul(FSub(q.x, p.x), FSub(r.y, p.y)) = FMul(FSub(q.y, p.y), FSub(r.x, p.x))

\* the points of P on the line through p and q
OnLineThrough(P, p, q) == {r \in P : Collinear(p, q, r)}

\* the point sets of the lines that hold three or more points of P
CollinearGroups(P) ==
    {S \in {OnLineThrough(P, pr[1], pr[2]) : pr \in {t \in P \X P : t[1] # t[2]}} :
        Cardinality(S) >= 3}

\* the groups of the result records
Groups == {results[k].group : k \in 1 .. Len(results)}

SharesX(g) == \A p, q \in g : p.x = q.x

Structures ==
    [ltp |-> lines_to_points, vxy |-> vertical_x_to_y,
     tpl |-> three_point_lines, raised |-> FALSE]

FreshStructures ==
    [ltp |-> EmptyMap, vxy |-> EmptyMap, tpl |-> {}, raised |-> FALSE]

\* --------------------------------------------------------------- claims
\* C1 (completeness): when the call has returned, every line that holds three
\* or more points of self.points has exactly one result record, whose group is
\* the set of all the points of self.points on that line, and every record's
\* group is such a set (no record for a line with fewer than three points).
C1_Complete ==
    pc = "done" =>
        /\ \A S \in CollinearGroups(points) :
            Cardinality({k \in 1 .. Len(results) : results[k].group = S}) = 1
        /\ \A k \in 1 .. Len(results) : results[k].group \in CollinearGroups(points)

\* a returned call with a sloped group and a vertical group
C1_Witness ==
    /\ pc = "done"
    /\ \E g \in Groups : SharesX(g)
    /\ \E g \in Groups : ~SharesX(g)

\* C2 (soundness): every result record lists at least three points, any three
\* of which are collinear: all share one x, or every pair of them gives the
\* same Line; a point of self.points off the line of three points of a group
\* is not in that group.
C2_Sound ==
    \A k \in 1 .. Len(results) :
        LET g == results[k].group
        IN  /\ Cardinality(g) >= 3
            /\ \A p, q, r \in g : Collinear(p, q, r)
            /\ \/ SharesX(g)
               \/ \A p, q, r, s \in g :
                    (p # q /\ r # s) =>
                        /\ Line(p, q) # ZeroDivisionError
                        /\ Line(p, q) = Line(r, s)
            /\ \A a, b, c \in g : \A d \in points :
                (a # b /\ b # c /\ a # c /\ ~Collinear(a, b, d)) => d \notin g

\* a record was built while a fourth point lies off its line
C2_Witness ==
    \E k \in 1 .. Len(results) :
        /\ ~SharesX(results[k].group)
        /\ \E d \in points : d \notin results[k].group

\* C3 (permutation invariance): when the scan of a fresh LineParser returns,
\* the three structures are those the scan leaves for every order of
\* list(self.points).
C3_OrderFree ==
    (pc = "scanned" /\ calls = 1) =>
        \A order \in Perms(points) : ScanOf(FreshStructures, order) = Structures

\* a finished scan of at least four points with a marked line and a vertical key
C3_Witness ==
    /\ pc = "scanned"
    /\ Cardinality(points) >= 4
    /\ three_point_lines # {}
    /\ DOMAIN vertical_x_to_y # {}

\* C4 (independence of calls): the groups a call returns are the groups of the
\* points of the file given to that call.
C4_CallsIndependent ==
    (pc = "done" /\ caught = "none") => Groups = CollinearGroups(supplied)

\* C5 (boundary): with at most two points the call does not raise and returns
\* no record; with exactly three points, all on one line, it returns exactly
\* one record, of three points.
C5_Boundary ==
    /\ Cardinality(points) <= 2 => pc # "raised"
    /\ pc = "done" =>
        /\ Cardinality(points) <= 2 => results = <<>>
        /\ (Cardinality(points) = 3 /\ \A p, q, r \in points : Collinear(p, q, r)) =>
            /\ Len(results) = 1
            /\ Cardinality(results[1].group) = 3

\* a returned call on exactly three points of one vertical line
C5_Witness ==
    /\ pc = "done"
    /\ Cardinality(points) = 3
    /\ SharesX(points)
    /\ Len(results) = 1

\* C6 (errors surfaced): an exception of the parse is never caught inside the
\* call, it ends the call.
C6_ErrorsSurfaced == caught # "none" => pc = "raised"

\* C7 (no division by zero): the call never raises and no key of
\* lines_to_points is an exception; Line of two points of equal x is the
\* ZeroDivisionError, Line of two points of different x is a slope and an
\* intercept with nonzero denominators (for the points the parse has left in
\* self.points, which no later step changes).
C7_NoZeroDivision ==
    /\ pc # "raised"
    /\ ZeroDivisionError \notin DOMAIN lines_to_points
    /\ pc = "parsed" => \A p, q \in points :
        IF p.x = q.x
        THEN Line(p, q) = ZeroDivisionError
        ELSE /\ Line(p, q) # ZeroDivisionError
             /\ Line(p, q).m[2] > 0
             /\ Line(p, q).b[2] > 0

\* the scan went through three points of one x and through a sloped pair
C7_Witness ==
    /\ pc = "scanned"
    /\ \E x \in DOMAIN vertical_x_to_y : Cardinality(vertical_x_to_y[x]) >= 3
    /\ DOMAIN lines_to_points # {}

\* C8 (labelling): the k-th record carries the label k, no sloped group follows
\* a vertical group, and during the report index is one more than the number
\* of records (a key with fewer than three y-values takes no label).
C8_Labels ==
    /\ \A k \in 1 .. Len(results) : results[k].label = k
    /\ \A j, k \in 1 .. Len(results) :
        (j < k /\ SharesX(results[j].group)) => SharesX(results[k].group)
    /\ pc = "report" => index = Len(results) + 1

\* the report has built a sloped record labelled 1, then a vertical record labelled 2
C8_Witness ==
    /\ pc = "report"
    /\ Len(results) = 2
    /\ ~SharesX(results[1].group) /\ results[1].label = 1
    /\ SharesX(results[2].group) /\ results[2].label = 2

\* the accumulation structures only grow
OnlyGrow ==
    /\ three_point_lines \subseteq three_point_lines'
    /\ DOMAIN lines_to_points \subseteq DOMAIN lines_to_points'
    /\ \A l \in DOMAIN lines_to_points : lines_to_points[l] \subseteq lines_to_points'[l]
    /\ DOMAIN vertical_x_to_y \subseteq DOMAIN vertical_x_to_y'
    /\ \A x \in DOMAIN vertical_x_to_y : vertical_x_to_y[x] \subseteq vertical_x_to_y'[x]

\* C9 (qualified set): in every state three_point_lines is the set of the keys
\* of lines_to_points whose set holds three or more points, and no step
\* removes anything from three_point_lines or from an accumulated set.
C9_Qualified ==
    /\ [](three_point_lines =
            {l \in DOMAIN lines_to_points : Cardinality(lines_to_points[l]) >= 3})
    /\ [][OnlyGrow]_vars

\* the scan is under way with a marked line and an unmarked entry of two points
C9_Witness ==
    /\ pc = "scan"
    /\ three_point_lines # {}
    /\ \E l \in DOMAIN lines_to_points : Cardinality(lines_to_points[l]) = 2

\* C10 (accumulation): every entry of lines_to_points holds at least two
\* points, all of self.points and all satisfying y = m*x + b of its key; every
\* entry of vertical_x_to_y holds at least two y-values, each the y of a point
\* of self.points with that x.
C10_Accumulation ==
    /\ \A l \in DOMAIN lines_to_points :
        /\ Cardinality(lines_to_points[l]) >= 2
        /\ \A p \in lines_to_points[l] :
            /\ p \in points
            /\ p.y = FAdd(FMul(l.m, p.x), l.b)
    /\ \A x \in DOMAIN vertical_x_to_y :
        /\ Cardinality(vertical_x_to_y[x]) >= 2
        /\ \A y \in vertical_x_to_y[x] : Point(x, y) \in points

\* the scan is under way with a sloped entry of a nonzero slope and a vertical entry
C10_Witness ==
    /\ pc = "scan"
    /\ \E l \in DOMAIN lines_to_points : ~FIsZero(l.m)
    /\ DOMAIN vertical_x_to_y # {}

====
